---- MODULE Spec2Model ----
(***************************************************************************)
(* A model of scripts/generate_feed.py: the listing-page link extractor,   *)
(* the XML text sanitizer, the announcement-page extractor, the RSS        *)
(* builder and the main run that ties them together.                       *)
(*                                                                         *)
(* A Python string is a sequence of symbols.  A symbol is a TLA+ string    *)
(* naming either one character ("x01", "TAB", "SP", "3", ".") or a chunk   *)
(* of printable characters that the code only ever treats as a whole       *)
(* ("duyuru", "?page=", "foo-123").  None and the empty string are both    *)
(* the empty sequence wherever the code tests only their truth.            *)
(***************************************************************************)
EXTENDS Integers, Sequences, FiniteSets, TLC

VARIABLES
    \* clean_xml_string: its argument, its result, the calls made
    s, cleaned, clean_calls,
    \* find_announcement_links: the page, the loop index, the locals
    list_html, a_idx, links, seen, lpc,
    \* extract_from_announcement: the page, its URL, the locals, the
    \* outcome of dateutil's parser, the returned record
    html, page_url, title, pubdate, description, parsed, pubdate_rfc, data, epc,
    \* main: the position, --max-items, the loop index, the items, the URLs
    \* fetched and extracted, the built document, the written file, the
    \* exit status
    pc, max_items, link_no, items, fetched, extracted, rss_xml, out_file, exit_code

cleanVars   == <<s, cleaned, clean_calls>>
linkVars    == <<list_html, a_idx, links, seen, lpc>>
extractVars == <<html, page_url, title, pubdate, description, parsed, pubdate_rfc, data, epc>>
mainVars    == <<pc, max_items, link_no, items, fetched, extracted, rss_xml, out_file, exit_code>>
vars        == <<cleanVars, linkVars, extractVars, mainVars>>

(***************************************************************************)
(* Bounds of the model.                                                    *)
(***************************************************************************)
MaxLen == 3
MaxAnchors == 3
MaxCandidates == 1
MaxRecords == 2
MaxListing == 3
MaxItemsArg == 3

(***************************************************************************)
(* Characters.                                                             *)
(***************************************************************************)
\* The code point of a one-character symbol; every chunk is printable.
Code(c) ==
    CASE c = "NUL" -> 0
      [] c = "x01" -> 1
      [] c = "x08" -> 8
      [] c = "TAB" -> 9
      [] c = "LF"  -> 10
      [] c = "VT"  -> 11
      [] c = "FF"  -> 12
      [] c = "CR"  -> 13
      [] c = "x0e" -> 14
      [] c = "x1f" -> 31
      [] c = "SP"  -> 32
      [] OTHER     -> 97

\* str.isspace() of one character: \t \n \v \f \r, \x1c-\x1f and the space.
IsSpace(c) ==
    LET n == Code(c) IN (9 <= n /\ n <= 13) \/ (28 <= n /\ n <= 31) \/ n = 32

RECURSIVE LStrip(_)
LStrip(t) == IF t # <<>> /\ IsSpace(Head(t)) THEN LStrip(Tail(t)) ELSE t

RECURSIVE RStrip(_)
RStrip(t) ==
    IF t # <<>> /\ IsSpace(t[Len(t)]) THEN RStrip(SubSeq(t, 1, Len(t) - 1)) ELSE t

\* str.strip()
Strip(t) == RStrip(LStrip(t))

\* Whether sub occurs in t as a contiguous run (Python's "sub in t").
Contains(sub, t) ==
    \E p \in 1..(Len(t) - Len(sub) + 1) : SubSeq(t, p, p + Len(sub) - 1) = sub

(***************************************************************************)
(* clean_xml_string                                                        *)
(***************************************************************************)
\* The character class of the regular expression: [\x00-\x08\x0b\x0c\x0e-\x1f].
MutControlClass(n) == (0 <= n /\ n <= 9) \/ n = 11 \/ n = 12 \/ (14 <= n /\ n <= 31)

ControlClass(n) == (0 <= n /\ n <= 8) \/ n = 11 \/ n = 12 \/ (14 <= n /\ n <= 31)

KeepChar(c) == ~ControlClass(Code(c))

clean_xml_string(t) == IF t = <<>> THEN <<>> ELSE SelectSeq(t, KeepChar)

\* The characters the sanitizer is run on: every edge of the class's ranges,
\* the three legal controls, the space and a letter.
CleanAlphabet ==
    {"NUL", "x01", "x08", "TAB", "LF", "VT", "FF", "CR", "x0e", "x1f", "SP", "A"}

RECURSIVE SeqsUpTo(_, _)
SeqsUpTo(S, n) ==
    IF n = 0 THEN {<<>>}
    ELSE LET shorter == SeqsUpTo(S, n - 1)
         IN  shorter \cup {Append(t, c) : t \in {u \in shorter : Len(u) = n - 1}, c \in S}

CleanIdle == s = <<>> /\ cleaned = <<>> /\ clean_calls = 0

\* A call clean_xml_string(s), and a call on the result of the first.
CleanCall ==
    /\ clean_calls = 0
    /\ cleaned' = clean_xml_string(s)
    /\ clean_calls' = 1
    /\ UNCHANGED <<s, linkVars, extractVars, mainVars>>

CleanAgain ==
    /\ clean_calls = 1
    /\ s' = cleaned
    /\ cleaned' = clean_xml_string(cleaned)
    /\ clean_calls' = 2
    /\ UNCHANGED <<linkVars, extractVars, mainVars>>

(***************************************************************************)
(* find_announcement_links                                                 *)
(***************************************************************************)
\* base_url as main builds it: scheme://host, one chunk.
BaseUrl == <<"https://titck.gov.tr">>

\* str.lower() of one symbol.
Lower(c) ==
    CASE c = "DUYURU" -> "duyuru"
      [] c = "JavaScript:" -> "javascript:"
      [] c = ".PDF" -> ".pdf"
      [] OTHER -> c

LowerStr(t) == [k \in DOMAIN t |-> Lower(t[k])]

\* A symbol that is a URL scheme other than the base's.
IsOtherScheme(c) == c \in {"javascript:", "JavaScript:"}

\* A symbol that ends the path of a URL: the start of a query or a fragment.
EndsPath(c) == c \in {"?page=", "?tab=", "?y=", "#"}

\* urllib.parse.urljoin(base, href) for a base without a path: a URL of
\* another scheme is returned as it is, an absolute URL of the base's host
\* too, a reference starting with / ? or # is put after the host, and a
\* relative path after the host and a slash.
urljoin(base, href) ==
    IF href = <<>> THEN base
    ELSE IF IsOtherScheme(Head(href)) THEN href
    ELSE IF Head(href) = Head(base) THEN href
    ELSE IF Head(href) = "/" \/ EndsPath(Head(href)) THEN base \o href
    ELSE base \o <<"/">> \o href

RECURSIVE UpToPathEnd(_)
UpToPathEnd(t) ==
    IF t = <<>> \/ EndsPath(Head(t)) THEN <<>>
    ELSE <<Head(t)>> \o UpToPathEnd(Tail(t))

\* urlparse(url).path: what follows the scheme (and host), up to ? or #.
urlparse_path(url) == IF url = <<>> THEN <<>> ELSE UpToPathEnd(Tail(url))

\* Line 68: "duyuru" in href.lower() or "/duyuru/" in href
HasMarker(href) ==
    \/ Contains(<<"duyuru">>, LowerStr(href))
    \/ Contains(<<"/", "duyuru", "/">>, href)

\* Line 69: "?page=" in href or "javascript:" in href or href.startswith("#")
IsExcluded(href) ==
    \/ Contains(<<"?page=">>, href)
    \/ Contains(<<"javascript:">>, href)
    \/ (href # <<>> /\ Head(href) = "#")

\* Line 75: the listing page itself.
IsListingRoot(path) == path = <<"/", "duyuru">> \/ path = <<"/", "duyuru", "/">>

\* One pass of the loop body (lines 57-79) on the anchor's href attribute,
\* from the locals st = [links, seen] to the locals after it.
MutLinkStep(st, a, base) ==
    LET href == Strip(a)
        full == urljoin(base, href)
    IN  IF HasMarker(href) /\ ~IsExcluded(href) /\ ~IsListingRoot(urlparse_path(full))
        THEN [links |-> Append(st.links, full), seen |-> st.seen \cup {full}]
        ELSE st

LinkStep(st, a, base) ==
    LET href == Strip(a)
        full == urljoin(base, href)
    IN  IF full \in st.seen THEN st
        ELSE IF HasMarker(href)
        THEN IF IsExcluded(href) THEN st
             ELSE IF IsListingRoot(urlparse_path(full)) THEN st
             ELSE [links |-> Append(st.links, full), seen |-> st.seen \cup {full}]
        ELSE st

RECURSIVE LinkLoop(_, _, _)
LinkLoop(st, anchors, base) ==
    IF anchors = <<>> THEN st
    ELSE LinkLoop(LinkStep(st, Head(anchors), base), Tail(anchors), base)

\* The whole function: the href attributes of the page's anchors, in
\* document order, to the returned list.
find_announcement_links(anchors, base) ==
    LinkLoop([links |-> <<>>, seen |-> {}], anchors, base).links

\* The href attributes that listing pages are built from.
AnchorPool ==
    { <<"/", "duyuru", "/", "foo-123">>,
      <<"/", "duyuru", "?page=", "2">>,
      <<"/", "duyuru", "/">>,
      <<"#", "top">>,
      <<"https://titck.gov.tr", "/", "duyuru", "/", "foo-123">>,
      <<"#", "duyuru">>,
      <<"https://titck.gov.tr", "#", "duyuru">>,
      <<"/", "duyuru", "/", "arsiv", "?tab=", "1", "&page=", "2">>,
      <<"JavaScript:", "duyuru", "(", ")">>,
      <<"SP", "/", "DUYURU", "/", "foo-123", "SP">> }

\* The listing page of the specification's example.
TheExamplePage ==
    << <<"/", "duyuru", "/", "foo-123">>, <<"/", "duyuru", "?page=", "2">>,
       <<"/", "duyuru", "/">>, <<"#", "top">> >>

\* A fetched page: status "ok" with the anchors' hrefs, or "none" (fetch
\* returned None), or "empty" (an empty body).
NoPage == [status |-> "none", anchors |-> <<>>]

LinkIdle ==
    list_html = NoPage /\ a_idx = 0 /\ links = <<>> /\ seen = {} /\ lpc = "idle"

\* Lines 56-79: one hyperlink of the page.
LinksLoop ==
    /\ lpc = "loop"
    /\ a_idx <= Len(list_html.anchors)
    /\ LET st == LinkStep([links |-> links, seen |-> seen],
                          list_html.anchors[a_idx], BaseUrl)
       IN  links' = st.links /\ seen' = st.seen
    /\ a_idx' = a_idx + 1
    /\ UNCHANGED <<list_html, lpc, cleanVars, extractVars, mainVars>>

\* Lines 81-82.
LinksReturn ==
    /\ lpc = "loop"
    /\ a_idx > Len(list_html.anchors)
    /\ lpc' = "returned"
    /\ UNCHANGED <<list_html, a_idx, links, seen, cleanVars, extractVars, mainVars>>

(***************************************************************************)
(* extract_from_announcement                                               *)
(*                                                                         *)
(* The parsed page is what the function reads of it: per selector the      *)
(* element found (present or not) and its text.                            *)
(***************************************************************************)
Absent == [present |-> FALSE, text |-> <<>>]

Elem(t) == [present |-> TRUE, text |-> t]

\* Tag.get_text(strip=True) of an element holding one text node; None (no
\* element) is as false as the empty string.
get_text(e) == IF e.present THEN Strip(e.text) ELSE <<>>

Placeholder == <<"Basliksiz duyuru">>

\* Lines 102-106: the first h1, else the first h2, else the first h3, each
\* only when its text is not empty.
MutGenericHeading(h) ==
    IF h.h1.present THEN get_text(h.h1)
    ELSE IF h.h2.present THEN get_text(h.h2)
    ELSE IF h.h3.present THEN get_text(h.h3)
    ELSE <<>>

GenericHeading(h) ==
    IF get_text(h.h1) # <<>> THEN get_text(h.h1)
    ELSE IF get_text(h.h2) # <<>> THEN get_text(h.h2)
    ELSE IF get_text(h.h3) # <<>> THEN get_text(h.h3)
    ELSE <<>>

\* Lines 96-111.  title_tag is soup.title.string: present when the document
\* has a title element whose only child is a string.
ResolveTitle(h) ==
    LET t1 == IF h.site_title.present THEN get_text(h.site_title) ELSE <<>>
        t2 == IF t1 = <<>> THEN GenericHeading(h) ELSE t1
        t3 == IF t2 = <<>> /\ h.title_tag.present /\ h.title_tag.text # <<>>
              THEN Strip(h.title_tag.text)
              ELSE t2
    IN  IF t3 = <<>> THEN Placeholder ELSE t3

(***************************************************************************)
(* Dates: the two regular expressions, strptime and format_datetime.       *)
(***************************************************************************)
Digits == <<"0", "1", "2", "3", "4", "5", "6", "7", "8", "9">>

IsDigit(c) == \E k \in DOMAIN Digits : Digits[k] = c

DigitVal(c) == (CHOOSE k \in DOMAIN Digits : Digits[k] = c) - 1

RECURSIVE Num(_)
Num(t) == IF t = <<>> THEN 0 ELSE 10 * Num(SubSeq(t, 1, Len(t) - 1)) + DigitVal(t[Len(t)])

\* n digits at position p of t.
DigitsAt(t, p, n) == p + n - 1 <= Len(t) /\ \A k \in p..(p + n - 1) : IsDigit(t[k])

IsDateSep(c) == c \in {"-", "/", "."}

\* \d{1,2}\.\d{1,2}\.\d{4} matched at p with a day of a and a month of b digits.
DmyAt(t, p, a, b) ==
    /\ p + a + b + 5 <= Len(t)
    /\ DigitsAt(t, p, a)
    /\ t[p + a] = "."
    /\ DigitsAt(t, p + a + 1, b)
    /\ t[p + a + b + 1] = "."
    /\ DigitsAt(t, p + a + b + 2, 4)

DmyMatches(t) ==
    {m \in [p : 1..Len(t), a : {1, 2}, b : {1, 2}] : DmyAt(t, m.p, m.a, m.b)}

\* re.search: the leftmost match (at one position at most one split of the
\* digits matches).
DmySearch(t) ==
    CHOOSE m \in DmyMatches(t) : \A n \in DmyMatches(t) : m.p <= n.p

\* \d{4}[-/\.]\d{1,2}[-/\.]\d{1,2} matched somewhere in t.
YmdFound(t) ==
    \E p \in 1..Len(t), a \in {1, 2} :
        /\ p + a + 6 <= Len(t)
        /\ DigitsAt(t, p, 4)
        /\ IsDateSep(t[p + 4])
        /\ DigitsAt(t, p + 5, a)
        /\ IsDateSep(t[p + a + 5])
        /\ IsDigit(t[p + a + 6])

IsLeap(y) == (y % 4 = 0 /\ y % 100 # 0) \/ y % 400 = 0

DaysIn(m, y) ==
    IF m = 2 THEN (IF IsLeap(y) THEN 29 ELSE 28)
    ELSE IF m \in {4, 6, 9, 11} THEN 30
    ELSE 31

NoDate == [day |-> 0, month |-> 0, year |-> 0]

\* datetime.strptime(text, "%d.%m.%Y") of a text the regular expression
\* matched: a ValueError unless it names a day of the calendar.
strptime(t, m) ==
    LET d  == Num(SubSeq(t, m.p, m.p + m.a - 1))
        mo == Num(SubSeq(t, m.p + m.a + 1, m.p + m.a + m.b))
        y  == Num(SubSeq(t, m.p + m.a + m.b + 2, m.p + m.a + m.b + 5))
    IN  IF y >= 1 /\ 1 <= mo /\ mo <= 12 /\ 1 <= d /\ d <= DaysIn(mo, y)
        THEN [raised |-> FALSE, dt |-> [day |-> d, month |-> mo, year |-> y]]
        ELSE [raised |-> TRUE, dt |-> NoDate]

MonthNames ==
    <<"Jan", "Feb", "Mar", "Apr", "May", "Jun", "Jul", "Aug", "Sep", "Oct", "Nov", "Dec">>

Digit(n) == Digits[n + 1]

\* email.utils.format_datetime of a date at midnight without a time zone;
\* the day's name is one chunk.
format_datetime(dt) ==
    << "Wdy,", "SP", Digit(dt.day \div 10), Digit(dt.day % 10), "SP",
       MonthNames[dt.month], "SP",
       Digit(dt.year \div 1000), Digit((dt.year \div 100) % 10),
       Digit((dt.year \div 10) % 10), Digit(dt.year % 10),
       "SP", "00:00:00", "SP", "-0000" >>

\* What dateutil's parser.parse(text, dayfirst=True) may do with a text:
\* raise, or return a date.
DateutilOutcomes ==
    { [raised |-> TRUE, dt |-> NoDate],
      [raised |-> FALSE, dt |-> [day |-> 30, month |-> 12, year |-> 2025]] }

\* Lines 171-179, the body of the try: the value of pubdate_rfc, or the
\* exception raised; r is what dateutil does with the text.
TryNormalize(text, r) ==
    IF DmyMatches(text) # {}
    THEN LET x == strptime(text, DmySearch(text))
         IN  IF x.raised THEN [raised |-> TRUE, rfc |-> <<>>]
             ELSE [raised |-> FALSE, rfc |-> format_datetime(x.dt)]
    ELSE IF r.raised THEN [raised |-> TRUE, rfc |-> <<>>]
         ELSE [raised |-> FALSE, rfc |-> format_datetime(r.dt)]

\* Lines 166-181: the try and its except.
MutNormalizeDate(text, r) ==
    IF text = <<>> THEN [raised |-> FALSE, rfc |-> <<>>] ELSE TryNormalize(text, r)

NormalizeDate(text, r) ==
    IF text = <<>> THEN [raised |-> FALSE, rfc |-> <<>>]
    ELSE IF TryNormalize(text, r).raised THEN [raised |-> FALSE, rfc |-> <<>>]
    ELSE TryNormalize(text, r)

\* Lines 129-133: the first candidate whose text holds a date.
RECURSIVE FirstDated(_)
FirstDated(cs) ==
    IF cs = <<>> THEN <<>>
    ELSE LET txt == Strip(Head(cs))
         IN  IF txt # <<>> /\ (YmdFound(txt) \/ DmyMatches(txt) # {})
             THEN txt
             ELSE FirstDated(Tail(cs))

\* Lines 114-133.
ResolveDate(h) ==
    LET p1 == IF h.date_el.present THEN get_text(h.date_el) ELSE <<>>
        p2 == IF p1 # <<>> THEN p1
              ELSE IF h.time_tag.present /\ h.time_tag.datetime # <<>>
              THEN h.time_tag.datetime
              ELSE IF h.time_tag.present /\ Strip(h.time_tag.text) # <<>>
              THEN Strip(h.time_tag.text)
              ELSE <<>>
    IN  IF p2 # <<>> THEN p2 ELSE FirstDated(h.candidates)

\* html.unescape of one symbol.
UnescapeSym(c) ==
    CASE c = "&amp;" -> "&"
      [] c = "&lt;" -> "<"
      [] OTHER -> c

unescape(t) == [k \in DOMAIN t |-> UnescapeSym(t[k])]

\* Lines 136-164; content is the serialized children of the container the
\* selectors chose, the unwanted elements removed.
ResolveContent(h) == clean_xml_string(unescape(Strip(h.content)))

\* The whole function, given what dateutil does with the date text.
ExtractRecord(h, url, r) ==
    [ title       |-> clean_xml_string(ResolveTitle(h)),
      link        |-> url,
      description |-> ResolveContent(h),
      pubDate     |-> NormalizeDate(ResolveDate(h), r).rfc ]

NoRecord == [title |-> <<>>, link |-> <<>>, description |-> <<>>, pubDate |-> <<>>]

NoHtml ==
    [ site_title |-> Absent, h1 |-> Absent, h2 |-> Absent, h3 |-> Absent,
      title_tag |-> Absent, date_el |-> Absent,
      time_tag |-> [present |-> FALSE, datetime |-> <<>>, text |-> <<>>],
      candidates |-> <<>>, content |-> <<>> ]

ExtractIdle ==
    /\ html = NoHtml /\ page_url = <<>> /\ title = <<>> /\ pubdate = <<>>
    /\ description = <<>> /\ parsed = [raised |-> TRUE, dt |-> NoDate]
    /\ pubdate_rfc = <<>> /\ data = NoRecord /\ epc = "idle"

\* Lines 96-111.
ExtractTitle ==
    /\ epc = "title"
    /\ title' = ResolveTitle(html)
    /\ epc' = "date"
    /\ UNCHANGED <<html, page_url, pubdate, description, parsed, pubdate_rfc, data>>
    /\ UNCHANGED <<cleanVars, linkVars, mainVars>>

\* Lines 113-133.
ExtractDate ==
    /\ epc = "date"
    /\ pubdate' = ResolveDate(html)
    /\ epc' = "content"
    /\ UNCHANGED <<html, page_url, title, description, parsed, pubdate_rfc, data>>
    /\ UNCHANGED <<cleanVars, linkVars, mainVars>>

\* Lines 135-164.
ExtractContent ==
    /\ epc = "content"
    /\ description' = ResolveContent(html)
    /\ epc' = "normalize"
    /\ UNCHANGED <<html, page_url, title, pubdate, parsed, pubdate_rfc, data>>
    /\ UNCHANGED <<cleanVars, linkVars, mainVars>>

\* Lines 166-181; an exception that leaves the try ends the call.
ExtractNormalize ==
    /\ epc = "normalize"
    /\ \E r \in DateutilOutcomes :
          /\ parsed' = r
          /\ pubdate_rfc' = NormalizeDate(pubdate, r).rfc
          /\ epc' = IF NormalizeDate(pubdate, r).raised THEN "raised" ELSE "return"
    /\ UNCHANGED <<html, page_url, title, pubdate, description, data>>
    /\ UNCHANGED <<cleanVars, linkVars, mainVars>>

\* Lines 183-188.
ExtractReturn ==
    /\ epc = "return"
    /\ data' = [ title |-> clean_xml_string(title), link |-> page_url,
                 description |-> description, pubDate |-> pubdate_rfc ]
    /\ epc' = "returned"
    /\ UNCHANGED <<html, page_url, title, pubdate, description, parsed, pubdate_rfc>>
    /\ UNCHANGED <<cleanVars, linkVars, mainVars>>

\* The texts an element of a page may hold: none, blanks only, or a word
\* between blanks.
TextsOf(w) == {<<"SP">>, <<"SP", w, "SP">>}

ElemsOf(w) == {Absent} \cup {Elem(t) : t \in TextsOf(w)}

\* Pages that differ in where a title can be found.  The element the
\* site-specific selector finds is an h1, so a page that has it has an h1.
TitlePages ==
    { h \in [ site_title : ElemsOf("Site"), h1 : ElemsOf("H1"), h2 : ElemsOf("H2"),
              h3 : ElemsOf("H3"), title_tag : ElemsOf("Doc"), date_el : {Absent},
              time_tag : {NoHtml.time_tag}, candidates : {<<>>},
              content : {<<"<p>", "&amp;", "x01", "</p>", "LF">>} ] :
        h.site_title.present => h.h1.present }

DateTexts ==
    { <<"3", "0", ".", "1", "2", ".", "2", "0", "2", "5", " - Denetim Hizmetleri">>,
      <<"3", "1", ".", "0", "2", ".", "2", "0", "2", "5">>,
      <<"Tarih: ", "1", ".", "2", ".", "2", "0", "2", "5">>,
      <<"1", "3", "0", ".", "1", "2", ".", "2", "0", "2", "5", "1">>,
      <<"2", "9", ".", "0", "2", ".", "2", "0", "2", "4">>,
      <<"9", "9", ".", "9", "9", ".", "2", "0", "2", "5", "SP",
        "0", "1", ".", "0", "1", ".", "2", "0", "2", "5">>,
      <<"2", "0", "2", "5", "-", "1", "2", "-", "3", "0">>,
      <<"Denetim Hizmetleri">>,
      <<"SP">> }

TimeTags ==
    { NoHtml.time_tag,
      [present |-> TRUE, datetime |-> <<"2", "0", "2", "5", "-", "1", "2", "-", "3", "0">>,
       text |-> <<>>],
      [present |-> TRUE, datetime |-> <<>>,
       text |-> <<"SP", "1", ".", "2", ".", "2", "0", "2", "5">>] }

CandidateTexts ==
    { <<"Yayin tarihi">>,
      <<"0", "0", ".", "0", "1", ".", "2", "0", "2", "5">>,
      <<"2", "0", "2", "5", "/", "1", "/", "5">> }

\* Pages that differ in where a date can be found.
DatePages ==
    [ site_title : {Absent}, h1 : {Absent}, h2 : {Elem(<<"H2">>)}, h3 : {Absent},
      title_tag : {Absent},
      date_el : {Absent} \cup {Elem(t) : t \in DateTexts},
      time_tag : TimeTags,
      candidates : SeqsUpTo(CandidateTexts, MaxCandidates),
      content : {<<>>} ]

PageUrl == BaseUrl \o <<"/", "duyuru", "/", "foo-123">>

(***************************************************************************)
(* build_rss                                                               *)
(***************************************************************************)
Child(tag, text) == [tag |-> tag, text |-> text]

\* Lines 199-206: the children of one item element, in order.
RssItem(it) ==
    << Child("title", it.title), Child("link", it.link), Child("guid", it.link) >>
    \o (IF it.pubDate # <<>> THEN <<Child("pubDate", it.pubDate)>> ELSE <<>>)
    \o << Child("description", it.description) >>

ChannelTitle == <<"TITCK Duyurular (otomatik)">>

ChannelDesc == <<"T.C. Turkiye Ilac ve Tibbi Cihaz Kurumu duyurulari">>

\* email.utils.format_datetime(datetime.now(timezone.utc)) at some moment.
FormatNow ==
    << "Wdy,", "SP", "0", "2", "SP", "Nov", "SP", "2", "0", "2", "6",
       "SP", "18:40:00", "SP", "+0000" >>

\* Lines 191-206: the channel's own children, then one item per record.
RssTree(channel_title, channel_link, channel_desc, recs) ==
    [ head  |-> << Child("title", channel_title), Child("link", channel_link),
                   Child("description", channel_desc),
                   Child("lastBuildDate", FormatNow) >>,
      items |-> [k \in DOMAIN recs |-> RssItem(recs[k])] ]

\* A character expat refuses in a document: a control character other than
\* tab, LF and CR.
ExpatRefuses(c) == Code(c) < 32 /\ Code(c) \notin {9, 10, 13}

HasRefused(t) == \E k \in DOMAIN t : ExpatRefuses(t[k])

NoDoc == [raised |-> FALSE, built |-> FALSE, head |-> <<>>, items |-> <<>>]

\* Lines 190-211.  ET.tostring writes the texts as they are (escaping only
\* & < >), and minidom.parseString (line 209) raises ExpatError on a text
\* holding a character XML forbids; what is returned is the document of the
\* tree.
build_rss(channel_title, channel_link, channel_desc, recs) ==
    LET tree == RssTree(channel_title, channel_link, channel_desc, recs)
    IN  IF \/ \E k \in DOMAIN tree.head : HasRefused(tree.head[k].text)
           \/ \E k \in DOMAIN tree.items :
                 \E c \in DOMAIN tree.items[k] : HasRefused(tree.items[k][c].text)
        THEN [raised |-> TRUE, built |-> FALSE, head |-> <<>>, items |-> <<>>]
        ELSE [raised |-> FALSE, built |-> TRUE, head |-> tree.head, items |-> tree.items]

(***************************************************************************)
(* main                                                                    *)
(***************************************************************************)
ListingUrl == BaseUrl \o <<"/", "duyuru", "?page=", "1">>

BinaryExtensions == {".pdf", ".docx", ".xlsx", ".xls", ".zip", ".jpg", ".png"}

\* Line 239: any(path.lower().endswith(ext) for ext in binary_extensions)
IsBinaryLink(link) ==
    LET path == urlparse_path(link)
    IN  path # <<>> /\ Lower(path[Len(path)]) \in BinaryExtensions

\* Line 240: path.split("/")[-1]
RECURSIVE LastSegment(_)
LastSegment(path) ==
    IF path = <<>> THEN <<>>
    ELSE IF path[Len(path)] = "/" THEN <<>>
    ELSE Append(LastSegment(SubSeq(path, 1, Len(path) - 1)), path[Len(path)])

\* Lines 241-246: the record made for a file.
MutBinaryRecord(link) ==
    LET filename == LastSegment(urlparse_path(link))
    IN  [ title       |-> <<"Dosya: ">>,
          link        |-> link,
          description |-> <<"Bu duyuru bir dosya baglantisidir: ", "<a href='">>
                          \o link \o <<"'>">> \o filename \o <<"</a>">>,
          pubDate     |-> FormatNow ]

BinaryRecord(link) ==
    LET filename == LastSegment(urlparse_path(link))
    IN  [ title       |-> <<"Dosya: ">> \o filename,
          link        |-> link,
          description |-> <<"Bu duyuru bir dosya baglantisidir: ", "<a href='">>
                          \o link \o <<"'>">> \o filename \o <<"</a>">>,
          pubDate     |-> FormatNow ]

\* links[: n] as Python slices: the first n for n >= 0, all but the last -n
\* for n < 0.
Slice(t, n) ==
    IF n >= 0 THEN SubSeq(t, 1, IF n < Len(t) THEN n ELSE Len(t))
    ELSE SubSeq(t, 1, IF Len(t) + n > 0 THEN Len(t) + n ELSE 0)

\* The href attributes the listing pages of a run are built from.
MainAnchorPool ==
    { <<"/", "duyuru", "/", "foo-123">>,
      <<"/", "duyuru", "/", "bar-7">>,
      <<"/", "duyuru", "/", "ek", ".pdf">>,
      <<"/", "duyuru", "/", "rapor", "x01", ".PDF">>,
      <<"#", "top">> }

\* What fetch(args.url) may return: None, an empty body, or a page.
ListingOutcomes ==
    {NoPage, [status |-> "empty", anchors |-> <<>>]}
    \cup [status : {"ok"}, anchors : SeqsUpTo(MainAnchorPool, MaxListing)]

\* The announcement pages a fetch may return: one with a heading, a dated
\* line and a body, and one whose only heading holds a control character.
ItemPages ==
    { [ NoHtml EXCEPT !.h1 = Elem(<<"Baslik">>),
                      !.date_el = Elem(<<"3", "0", ".", "1", "2", ".", "2", "0", "2", "5",
                                         " - Denetim Hizmetleri">>),
                      !.content = <<"<p>", "metin", "x01", "</p>">> ],
      [ NoHtml EXCEPT !.h1 = Elem(<<"x01">>) ] }

MainIdle ==
    /\ pc = "idle" /\ max_items = 0 /\ link_no = 0 /\ items = <<>> /\ fetched = <<>>
    /\ extracted = <<>> /\ rss_xml = NoDoc /\ out_file = NoDoc /\ exit_code = -1

\* The links the loop of line 234 runs over, and the one it is at.
Todo == Slice(links, max_items)

\* Lines 220-223: the listing page is fetched; without it the run ends.
MainFetchList ==
    /\ pc = "fetch_list"
    /\ \E page \in ListingOutcomes :
          /\ list_html' = page
          /\ IF page.status # "ok"
             THEN pc' = "exit" /\ exit_code' = 1
             ELSE pc' = "find_links" /\ exit_code' = exit_code
    /\ UNCHANGED <<a_idx, links, seen, lpc>>
    /\ UNCHANGED <<max_items, link_no, items, fetched, extracted, rss_xml, out_file>>
    /\ UNCHANGED <<cleanVars, extractVars>>

\* Lines 225-229: the links are found; without any the run ends.
MutMainFindLinks ==
    /\ pc = "find_links"
    /\ links' = find_announcement_links(list_html.anchors, BaseUrl)
    /\ pc' = "loop"
    /\ UNCHANGED <<list_html, a_idx, seen, lpc, exit_code>>
    /\ UNCHANGED <<max_items, link_no, items, fetched, extracted, rss_xml, out_file>>
    /\ UNCHANGED <<cleanVars, extractVars>>

MainFindLinks ==
    /\ pc = "find_links"
    /\ links' = find_announcement_links(list_html.anchors, BaseUrl)
    /\ IF links' = <<>>
       THEN pc' = "exit" /\ exit_code' = 1
       ELSE pc' = "loop" /\ exit_code' = exit_code
    /\ UNCHANGED <<list_html, a_idx, seen, lpc>>
    /\ UNCHANGED <<max_items, link_no, items, fetched, extracted, rss_xml, out_file>>
    /\ UNCHANGED <<cleanVars, extractVars>>

\* Lines 238-247: a link to a file gets a record of its own.
MainBinary ==
    /\ pc = "loop"
    /\ link_no <= Len(Todo)
    /\ IsBinaryLink(Todo[link_no])
    /\ items' = Append(items, BinaryRecord(Todo[link_no]))
    /\ link_no' = link_no + 1
    /\ UNCHANGED <<pc, max_items, fetched, extracted, rss_xml, out_file, exit_code>>
    /\ UNCHANGED <<cleanVars, linkVars, extractVars>>

\* Lines 249-252: the fetch fails (None) or returns an empty body.
MainFetchFailed ==
    /\ pc = "loop"
    /\ link_no <= Len(Todo)
    /\ ~IsBinaryLink(Todo[link_no])
    /\ fetched' = Append(fetched, Todo[link_no])
    /\ link_no' = link_no + 1
    /\ UNCHANGED <<pc, max_items, items, extracted, rss_xml, out_file, exit_code>>
    /\ UNCHANGED <<cleanVars, linkVars, extractVars>>

\* Lines 249-254: the fetch returns a page and the record extracted from it
\* is appended.
MainExtract ==
    /\ pc = "loop"
    /\ link_no <= Len(Todo)
    /\ ~IsBinaryLink(Todo[link_no])
    /\ \E h \in ItemPages, r \in DateutilOutcomes :
          /\ items' = Append(items, ExtractRecord(h, Todo[link_no], r))
          /\ pc' = IF NormalizeDate(ResolveDate(h), r).raised THEN "crashed" ELSE pc
          /\ exit_code' = IF NormalizeDate(ResolveDate(h), r).raised THEN 1 ELSE exit_code
    /\ fetched' = Append(fetched, Todo[link_no])
    /\ extracted' = Append(extracted, Todo[link_no])
    /\ link_no' = link_no + 1
    /\ UNCHANGED <<max_items, rss_xml, out_file>>
    /\ UNCHANGED <<cleanVars, linkVars, extractVars>>

\* Line 234: the loop is over.
MainLoopEnd ==
    /\ pc = "loop"
    /\ link_no > Len(Todo)
    /\ pc' = "build"
    /\ UNCHANGED <<max_items, link_no, items, fetched, extracted, rss_xml, out_file, exit_code>>
    /\ UNCHANGED <<cleanVars, linkVars, extractVars>>

\* Lines 256-259: the document is built; an ExpatError is not caught and
\* ends the run.
MainBuild ==
    /\ pc = "build"
    /\ rss_xml' = build_rss(ChannelTitle, ListingUrl, ChannelDesc, items)
    /\ IF rss_xml'.raised
       THEN pc' = "crashed" /\ exit_code' = 1
       ELSE pc' = "write" /\ exit_code' = exit_code
    /\ UNCHANGED <<max_items, link_no, items, fetched, extracted, out_file>>
    /\ UNCHANGED <<cleanVars, linkVars, extractVars>>

\* Lines 261-264: the document is written and main returns.
MainWrite ==
    /\ pc = "write"
    /\ out_file' = rss_xml
    /\ pc' = "done"
    /\ exit_code' = 0
    /\ UNCHANGED <<max_items, link_no, items, fetched, extracted, rss_xml>>
    /\ UNCHANGED <<cleanVars, linkVars, extractVars>>

\* The records build_rss is called with on its own.
RecordPool ==
    [ title       : {<<>>, <<"Baslik">>, <<"Dosya: ", "rapor", "x01", ".PDF">>},
      link        : {BaseUrl \o <<"/", "duyuru", "/", "foo-123">>,
                     BaseUrl \o <<"/", "duyuru", "/", "bar-7">>},
      description : {<<>>, <<"<p>", "metin", "</p>">>},
      pubDate     : {<<>>, FormatNow} ]

(***************************************************************************)
(* Specifications                                                          *)
(***************************************************************************)
\* clean_xml_string called on every string up to MaxLen.
InitClean ==
    /\ s \in SeqsUpTo(CleanAlphabet, MaxLen)
    /\ cleaned = <<>>
    /\ clean_calls = 0
    /\ LinkIdle /\ ExtractIdle /\ MainIdle

NextClean == CleanCall \/ CleanAgain

SpecClean == InitClean /\ [][NextClean]_vars

\* find_announcement_links called on every page of up to MaxAnchors anchors
\* and on the example page.
InitLinks ==
    /\ list_html \in [status : {"ok"},
                      anchors : SeqsUpTo(AnchorPool, MaxAnchors) \cup {TheExamplePage}]
    /\ a_idx = 1
    /\ links = <<>>
    /\ seen = {}
    /\ lpc = "loop"
    /\ CleanIdle /\ ExtractIdle /\ MainIdle

NextLinks == LinksLoop \/ LinksReturn

SpecLinks == InitLinks /\ [][NextLinks]_vars

\* extract_from_announcement called on every page of TitlePages and DatePages.
InitExtract ==
    /\ html \in TitlePages \cup DatePages
    /\ page_url = PageUrl
    /\ title = <<>> /\ pubdate = <<>> /\ description = <<>>
    /\ parsed = [raised |-> TRUE, dt |-> NoDate]
    /\ pubdate_rfc = <<>> /\ data = NoRecord
    /\ epc = "title"
    /\ CleanIdle /\ LinkIdle /\ MainIdle

NextExtract ==
    ExtractTitle \/ ExtractDate \/ ExtractContent \/ ExtractNormalize \/ ExtractReturn

SpecExtract == InitExtract /\ [][NextExtract]_vars

\* build_rss called, as main calls it, on every sequence of up to MaxRecords
\* records, and the document written.
InitRss ==
    /\ pc = "build"
    /\ items \in SeqsUpTo(RecordPool, MaxRecords)
    /\ max_items = 0 /\ link_no = 0 /\ fetched = <<>> /\ extracted = <<>>
    /\ rss_xml = NoDoc /\ out_file = NoDoc /\ exit_code = -1
    /\ CleanIdle /\ LinkIdle /\ ExtractIdle

NextRss == MainBuild \/ MainWrite

SpecRss == InitRss /\ [][NextRss]_vars

\* A run of main, for every --max-items from -1 to MaxItemsArg.
Init ==
    /\ pc = "fetch_list"
    /\ max_items \in -1..MaxItemsArg
    /\ link_no = 1
    /\ items = <<>> /\ fetched = <<>> /\ extracted = <<>>
    /\ rss_xml = NoDoc /\ out_file = NoDoc /\ exit_code = -1
    /\ CleanIdle /\ LinkIdle /\ ExtractIdle

Next ==
    \/ MainFetchList
    \/ MainFindLinks
    \/ MainBinary
    \/ MainFetchFailed
    \/ MainExtract
    \/ MainLoopEnd
    \/ MainBuild
    \/ MainWrite

Spec == Init /\ [][Next]_vars

(***************************************************************************)
(* Claims about clean_xml_string (SpecClean)                               *)
(***************************************************************************)
\* The characters XML 1.0 forbids below 0x20: all but tab, LF and CR.
IllegalXmlChar(c) == Code(c) \in ((0..8) \cup {11, 12} \cup (14..31))

\* The positions of t that hold a legal character, and the k-th of them.
LegalPositions(t) == {k \in DOMAIN t : ~IllegalXmlChar(t[k])}

NthLegal(t, k) ==
    CHOOSE i \in LegalPositions(t) : Cardinality({j \in LegalPositions(t) : j <= i}) = k

\* C8: clean_xml_string(s) holds no character of 0x00-0x08, 0x0B, 0x0C,
\* 0x0E-0x1F and is s with exactly those characters deleted, every other
\* character (tab, LF and CR included) kept in its order; cleaning the result
\* again changes nothing.
C8_CleanDeletesExactlyIllegal ==
    /\ clean_calls = 1 =>
          /\ \A k \in DOMAIN cleaned : ~IllegalXmlChar(cleaned[k])
          /\ Len(cleaned) = Cardinality(LegalPositions(s))
          /\ \A k \in DOMAIN cleaned : cleaned[k] = s[NthLegal(s, k)]
    /\ clean_calls = 2 => cleaned = s

C8_Witness ==
    /\ clean_calls = 1
    /\ \E i, j, k \in DOMAIN s : /\ i < j /\ j < k
                                 /\ s[i] = "TAB" /\ IllegalXmlChar(s[j]) /\ s[k] = "CR"
    /\ Len(cleaned) = Len(s) - 1

(***************************************************************************)
(* Claims about find_announcement_links (SpecLinks)                        *)
(***************************************************************************)
\* The absolute URL of the k-th anchor of the page, and its href as the loop
\* reads it.
HrefOf(k) == Strip(list_html.anchors[k])

FullOf(k) == urljoin(BaseUrl, HrefOf(k))

\* The anchors whose href passes the filter of lines 68-76.
AcceptedAnchors ==
    {k \in DOMAIN list_html.anchors :
        /\ HasMarker(HrefOf(k))
        /\ ~IsExcluded(HrefOf(k))
        /\ ~IsListingRoot(urlparse_path(FullOf(k)))}

Min(S) == CHOOSE m \in S : \A n \in S : m <= n

FirstOccurrence(u) == Min({k \in DOMAIN list_html.anchors : FullOf(k) = u})

FirstAccepted(u) == Min({k \in AcceptedAnchors : FullOf(k) = u})

ReturnsTheAccepted ==
    /\ \A p \in DOMAIN links : \E k \in AcceptedAnchors : FullOf(k) = links[p]
    /\ \A k \in AcceptedAnchors : \E p \in DOMAIN links : links[p] = FullOf(k)
    /\ \A p, q \in DOMAIN links : p # q => links[p] # links[q]

\* C1 as stated: the returned list repeats no URL, and the returned URLs are
\* in the document order of their first occurrences.
C1_OrderOfFirstOccurrence ==
    lpc = "returned" =>
        /\ ReturnsTheAccepted
        /\ \A p, q \in DOMAIN links :
              p < q => FirstOccurrence(links[p]) < FirstOccurrence(links[q])

\* C1 as amended: the returned list repeats no URL, and the returned URLs are
\* in the document order of their first accepted occurrences (the first
\* hyperlink resolving to the URL whose href passes the filter).
C1_OrderOfFirstAccepted ==
    lpc = "returned" =>
        /\ ReturnsTheAccepted
        /\ \A p, q \in DOMAIN links :
              p < q => FirstAccepted(links[p]) < FirstAccepted(links[q])

\* Two accepted hyperlinks resolve to one URL, with another accepted URL
\* between them.
C1_Witness ==
    /\ lpc = "returned"
    /\ Len(links) = 2
    /\ \E i, j, k \in AcceptedAnchors :
          /\ i < j /\ j < k
          /\ FullOf(i) = FullOf(k)
          /\ FullOf(i) # FullOf(j)

IsPaginationUrl(u) == \E k \in DOMAIN u : u[k] \in {"?page=", "&page="}

IsJavascriptUrl(u) == u # <<>> /\ Lower(Head(u)) = "javascript:"

\* C2: every returned URL comes from an href holding the marker "duyuru",
\* and none is a pagination link, a javascript pseudo-URL, a fragment-only
\* anchor or the bare listing root; the example page yields exactly
\* [base + "/duyuru/foo-123"].
C2_NoExcludedLinkReturned ==
    lpc = "returned" =>
        /\ \A p \in DOMAIN links :
              /\ \E k \in DOMAIN list_html.anchors :
                    /\ FullOf(k) = links[p]
                    /\ HasMarker(HrefOf(k))
                    /\ Head(HrefOf(k)) # "#"
              /\ ~IsPaginationUrl(links[p])
              /\ ~IsJavascriptUrl(links[p])
              /\ ~IsListingRoot(urlparse_path(links[p]))
        /\ list_html.anchors = TheExamplePage =>
              links = <<BaseUrl \o <<"/", "duyuru", "/", "foo-123">> >>

\* The part of C2 that holds: every returned URL comes from an href with the
\* marker that holds neither "?page=" nor "javascript:" and does not start
\* with "#", its path is not the listing root, and the example page yields
\* exactly [base + "/duyuru/foo-123"].
C2_FilterAsWritten ==
    lpc = "returned" =>
        /\ \A p \in DOMAIN links :
              /\ \E k \in DOMAIN list_html.anchors :
                    /\ FullOf(k) = links[p]
                    /\ \E n \in DOMAIN HrefOf(k) : HrefOf(k)[n] \in {"duyuru", "DUYURU"}
                    /\ \A n \in DOMAIN HrefOf(k) : HrefOf(k)[n] \notin {"?page=", "javascript:"}
                    /\ Head(HrefOf(k)) # "#"
              /\ ~IsListingRoot(urlparse_path(links[p]))
        /\ list_html.anchors = TheExamplePage =>
              links = <<BaseUrl \o <<"/", "duyuru", "/", "foo-123">> >>

(***************************************************************************)
(* Claims about extract_from_announcement (SpecExtract)                    *)
(***************************************************************************)
IsBlank(c) == c = "SP"

NotBlank(c) == ~IsBlank(c)

\* The text a title source yields: nothing when the element is absent, else
\* its text without the blanks around it.
Yields(e) == IF e.present THEN SelectSeq(e.text, NotBlank) ELSE <<>>

TitleSources ==
    << Yields(html.site_title), Yields(html.h1), Yields(html.h2), Yields(html.h3),
       Yields(html.title_tag) >>

\* C9: the title is the text of the first source, in the order site-specific
\* heading, h1, h2, h3, document title, that yields a non-empty text, and the
\* placeholder only when none does; a page whose only text is in an h2 gets
\* that h2 text.
C9_TitleFirstMatchWins ==
    epc \in {"date", "content", "normalize", "return", "returned"} =>
        LET hits == {k \in DOMAIN TitleSources : TitleSources[k] # <<>>}
        IN  /\ title = IF hits = {} THEN Placeholder ELSE TitleSources[Min(hits)]
            /\ (hits = {3}) => title = <<"H2">>
            /\ epc = "returned" => data.title = title

\* The page has neither the site-specific heading nor a text in an h1; its
\* h2 holds the title.
C9_Witness ==
    /\ epc = "returned"
    /\ ~html.site_title.present
    /\ html.h1 = Elem(<<"SP">>)
    /\ html.h2 = Elem(<<"SP", "H2", "SP">>)
    /\ html.title_tag.present
    /\ data.title = <<"H2">>

Rfc(dd, mon, yyyy) ==
    <<"Wdy,", "SP">> \o dd \o <<"SP", mon, "SP">> \o yyyy \o <<"SP", "00:00:00", "SP", "-0000">>

\* The first D.M.YYYY-shaped substring of the date text, as day, month, year.
FirstDmy ==
    LET m == CHOOSE x \in DmyMatches(pubdate) : \A y \in DmyMatches(pubdate) : x.p <= y.p
    IN  [ day   |-> Num(SubSeq(pubdate, m.p, m.p + m.a - 1)),
          month |-> Num(SubSeq(pubdate, m.p + m.a + 1, m.p + m.a + m.b)),
          year  |-> Num(SubSeq(pubdate, m.p + m.a + m.b + 2, m.p + m.a + m.b + 5)) ]

IsCalendarDate(d) ==
    /\ d.year >= 1 /\ d.month \in 1..12 /\ d.day >= 1
    /\ d.day <= (CASE d.month \in {4, 6, 9, 11} -> 30
                   [] d.month = 2 /\ d.year % 4 = 0 /\ (d.year % 100 # 0 \/ d.year % 400 = 0) -> 29
                   [] d.month = 2 -> 28
                   [] OTHER -> 31)

\* C10: date normalization never raises; a date text holding a D.M.YYYY-shaped
\* substring gives the date of the first such substring (30.12.2025 for
\* "30.12.2025 - Denetim Hizmetleri"), any other text what the day-first
\* general parse gives, and the record is returned with an empty pubDate
\* whenever no date was found or the parse fails.
C10_DateNeverRaises ==
    /\ epc # "raised"
    /\ epc = "returned" =>
          /\ pubdate = <<>> => data.pubDate = <<>>
          /\ (pubdate # <<>> /\ DmyMatches(pubdate) # {}) =>
                data.pubDate = IF IsCalendarDate(FirstDmy) THEN format_datetime(FirstDmy)
                               ELSE <<>>
          /\ (pubdate # <<>> /\ DmyMatches(pubdate) = {}) =>
                data.pubDate = IF parsed.raised THEN <<>> ELSE format_datetime(parsed.dt)
          /\ pubdate = <<"3", "0", ".", "1", "2", ".", "2", "0", "2", "5",
                         " - Denetim Hizmetleri">> =>
                data.pubDate = Rfc(<<"3", "0">>, "Dec", <<"2", "0", "2", "5">>)
          /\ pubdate = <<"1", "3", "0", ".", "1", "2", ".", "2", "0", "2", "5", "1">> =>
                data.pubDate = Rfc(<<"3", "0">>, "Dec", <<"2", "0", "2", "5">>)
          /\ pubdate = <<"1", ".", "2", ".", "2", "0", "2", "5">> =>
                data.pubDate = Rfc(<<"0", "1">>, "Feb", <<"2", "0", "2", "5">>)
          /\ pubdate = <<"3", "1", ".", "0", "2", ".", "2", "0", "2", "5">> =>
                data.pubDate = <<>>
          /\ data.link = page_url

\* The record of a page whose date is not a day of the calendar, returned
\* with an empty pubDate.
C10_Witness ==
    /\ epc = "returned"
    /\ pubdate = <<"3", "1", ".", "0", "2", ".", "2", "0", "2", "5">>
    /\ data.pubDate = <<>>
    /\ data.title = <<"H2">>

(***************************************************************************)
(* Claims about build_rss (SpecRss)                                        *)
(***************************************************************************)
TagsOf(item) == [k \in DOMAIN item |-> item[k].tag]

TextOf(item, tag) == item[CHOOSE k \in DOMAIN item : item[k].tag = tag].text

\* C7: for every sequence of records build_rss returns a document with one
\* item per record, in order, each with title, link, guid (the link) and
\* description, and with a pubDate exactly when the record's is not empty.
C7_OneItemPerRecord ==
    pc \in {"write", "done", "crashed"} =>
        /\ rss_xml.built
        /\ Len(rss_xml.items) = Len(items)
        /\ \A k \in DOMAIN rss_xml.items :
              LET it == rss_xml.items[k]
              IN  /\ TagsOf(it) = IF items[k].pubDate # <<>>
                                  THEN <<"title", "link", "guid", "pubDate", "description">>
                                  ELSE <<"title", "link", "guid", "description">>
                  /\ TextOf(it, "title") = items[k].title
                  /\ TextOf(it, "link") = items[k].link
                  /\ TextOf(it, "guid") = items[k].link
                  /\ TextOf(it, "description") = items[k].description
                  /\ items[k].pubDate # <<>> => TextOf(it, "pubDate") = items[k].pubDate

\* The part of C7 that holds: whenever build_rss returns, the document has
\* one item per record, in order, with the children the claim names.
C7_ItemsWhenBuilt ==
    rss_xml.built =>
        /\ Len(rss_xml.items) = Len(items)
        /\ \A k \in DOMAIN rss_xml.items :
              LET it == rss_xml.items[k]
              IN  /\ TagsOf(it) = IF items[k].pubDate # <<>>
                                  THEN <<"title", "link", "guid", "pubDate", "description">>
                                  ELSE <<"title", "link", "guid", "description">>
                  /\ TextOf(it, "title") = items[k].title
                  /\ TextOf(it, "link") = items[k].link
                  /\ TextOf(it, "guid") = items[k].link
                  /\ TextOf(it, "description") = items[k].description

(***************************************************************************)
(* Claims about main (Spec)                                                *)
(***************************************************************************)
HasIllegal(t) == \E k \in DOMAIN t : IllegalXmlChar(t[k])

\* C3: every record that reaches build_rss has a non-empty title and link,
\* and no character illegal in XML in its title, pubDate and description.
C3_RecordsWellFormed ==
    pc = "build" =>
        \A k \in DOMAIN items :
            /\ items[k].title # <<>>
            /\ items[k].link # <<>>
            /\ ~HasIllegal(items[k].title)
            /\ ~HasIllegal(items[k].pubDate)
            /\ ~HasIllegal(items[k].description)

Range(t) == {t[k] : k \in DOMAIN t}

\* C4: when find_announcement_links returns no link, the run exits with a
\* non-zero status, and no item page is fetched, no document built and no
\* file written.
C4_NoLinksIsFailure ==
    (list_html.status = "ok" /\ pc # "find_links" /\ links = <<>>) =>
        /\ pc = "exit"
        /\ exit_code = 1
        /\ fetched = <<>> /\ extracted = <<>> /\ items = <<>>
        /\ ~rss_xml.built /\ ~rss_xml.raised
        /\ ~out_file.built

\* The listing page was fetched and has anchors, none of them accepted.
C4_Witness ==
    /\ pc = "exit"
    /\ list_html.status = "ok"
    /\ Len(list_html.anchors) = 2
    /\ links = <<>>
    /\ exit_code = 1

\* The first n elements of t (none for n <= 0).
FirstN(t, n) == SubSeq(t, 1, IF n < 0 THEN 0 ELSE IF n < Len(t) THEN n ELSE Len(t))

EndsInExtension(link) ==
    \E k \in DOMAIN link :
        /\ link[k] \in {".pdf", ".PDF"}
        /\ k = Len(link) \/ link[k + 1] \in {"?y=", "#"}

IsKept(link) == EndsInExtension(link) \/ link \in Range(extracted)

\* C5: a run that found links ends by writing a feed whose items are, in
\* discovery order, the records of those of the first max-count links that
\* are file links or were fetched, never more than max-count of them.
C5_FeedOfTheFetched ==
    (pc \in {"done", "crashed"}) =>
        /\ pc = "done"
        /\ out_file.built
        /\ [k \in DOMAIN items |-> items[k].link] = SelectSeq(FirstN(links, max_items), IsKept)
        /\ Len(out_file.items) = Len(items)
        /\ Len(items) <= max_items

\* The part of C5 that holds: a run given a count >= 0 that gets to write
\* its feed writes the records of the kept links, in order, within the count.
C5_FeedWhenWritten ==
    (pc = "done" /\ max_items >= 0) =>
        /\ out_file.built
        /\ [k \in DOMAIN items |-> items[k].link] = SelectSeq(FirstN(links, max_items), IsKept)
        /\ Len(out_file.items) = Len(items)
        /\ Len(items) <= max_items

Basename(link) ==
    LET last == CHOOSE k \in DOMAIN link : link[k] \in {".pdf", ".PDF"}
        slash == CHOOSE k \in 1..last : link[k] = "/" /\ \A j \in (k + 1)..last : link[j] # "/"
    IN  SubSeq(link, slash + 1, last)

\* What the claim says of the file link l once the loop is over.
FileLinkHandled(l) ==
    /\ l \notin Range(fetched)
    /\ l \notin Range(extracted)
    /\ Cardinality({k \in DOMAIN items : items[k].link = l}) = 1
    /\ \A k \in DOMAIN items :
          items[k].link = l =>
              /\ items[k].title = <<"Dosya: ">> \o Basename(l)
              /\ Contains(<<"<a href='">> \o l \o <<"'>">>, items[k].description)

LoopIsOver == pc \in {"build", "write", "done", "crashed"}

\* C6 as stated: every discovered link whose path ends in a file extension is
\* never fetched or extracted and gets exactly one record, with the
\* placeholder title and an anchor to the link.
C6_EveryFileLinkHasARecord ==
    LoopIsOver => \A k \in DOMAIN links : EndsInExtension(links[k]) => FileLinkHandled(links[k])

\* C6 as amended: the same of every discovered link that the loop runs over,
\* links[: max_items]; a file link is never fetched or extracted at all.
C6_EveryProcessedFileLinkHasARecord ==
    /\ \A k \in DOMAIN links :
          EndsInExtension(links[k]) =>
              links[k] \notin Range(fetched) /\ links[k] \notin Range(extracted)
    /\ LoopIsOver =>
          \A k \in DOMAIN Slice(links, max_items) :
              EndsInExtension(links[k]) => FileLinkHandled(links[k])

\* The loop is over: two file links were processed, one with an upper-case
\* extension, and a page link between them was fetched.
C6_Witness ==
    /\ pc = "build"
    /\ Len(items) = 3
    /\ EndsInExtension(items[1].link)
    /\ ~EndsInExtension(items[2].link)
    /\ items[3].link = BaseUrl \o <<"/", "duyuru", "/", "ek", ".pdf">>
    /\ fetched = <<items[2].link>>

====
